---------------------------- MODULE Spec2Model ----------------------------
(***************************************************************************)
(* A model of refresh_modules.py: the Swagger document is indexed into     *)
(* resources (SwaggerFile.init_resources, path_to_name), and every         *)
(* resource is rendered by main(), whose renderer calls                    *)
(* AnsibleModuleBase.parameters() several times.  Dictionaries are         *)
(* functions over string keys, lists are sequences, and strings that the   *)
(* code takes apart (path templates, descriptions) are sequences of        *)
(* characters or tokens.  The dictionaries and lists the code mutates in   *)
(* place live in the variables resources and definitions.                  *)
(***************************************************************************)
EXTENDS Integers, Sequences, FiniteSets, TLC

VARIABLES
    document,     \* the JSON document as read from the file: [paths, definitions]
    template,     \* the segments and query string each path was written from
    definitions,  \* Definitions.definitions: the live definition table
    resources,    \* the live Resource objects: sequence of [name, operations] in dict order
    pc,           \* main()'s position: "loaded", "rendering", "done" or "failed"
    todo,         \* the resources main()'s loop has still to visit
    order,        \* the iteration order of the last module's default_operationIds set
    returned,     \* what each parameters() call of the last module returned
    error,        \* the exception that ended main(), or "none"
    emitted       \* the names of the module files written so far

vars == <<document, template, definitions, resources, pc, todo, order,
          returned, error, emitted>>

(***************************************************************************)
(* Bounds of the model.                                                    *)
(***************************************************************************)
MaxSegments == 3     \* segments of a path template in the naming runs
MaxParams == 2       \* raw parameter entries of a resource in the merge runs
MaxPaths == 2        \* paths of a document in the indexing runs
MaxCopies == 2       \* copies of one value the model keeps in an enum list

(***************************************************************************)
(* Generic helpers on sequences.                                           *)
(***************************************************************************)
Range(s) == {s[i] : i \in 1..Len(s)}

RECURSIVE Concat(_)
Concat(ss) == IF ss = <<>> THEN <<>> ELSE Head(ss) \o Concat(Tail(ss))

SeqsUpTo(S, n) == UNION {[1..k -> S] : k \in 0..n}

Perms(S) == {s \in [1..Cardinality(S) -> S] : Range(s) = S}

(***************************************************************************)
(* Strings.  A path template is a sequence of one-character strings.       *)
(***************************************************************************)
\* str.lower() on the characters that occur in the templates
LowerChar(c) ==
    CASE c = "D" -> "d"
      [] c = "M" -> "m"
      [] c = "V" -> "v"
      [] OTHER -> c

Lower(s) == [i \in 1..Len(s) |-> LowerChar(s[i])]

\* str.replace(old, new) for a one-character old
RECURSIVE Replace(_, _, _)
Replace(s, old, new) ==
    IF s = <<>> THEN <<>>
    ELSE (IF Head(s) = old THEN new ELSE <<Head(s)>>) \o Replace(Tail(s), old, new)

\* str.split(sep) for a one-character sep: the pieces between the separators
RECURSIVE Split(_, _)
Split(s, sep) ==
    IF \A i \in 1..Len(s) : s[i] # sep THEN <<s>>
    ELSE LET k == CHOOSE i \in 1..Len(s) :
                      s[i] = sep /\ \A j \in 1..(i - 1) : s[j] # sep
         IN  <<SubSeq(s, 1, k - 1)>> \o Split(SubSeq(s, k + 1, Len(s)), sep)

\* "_".join(elements)
RECURSIVE Join(_, _)
Join(elements, sep) ==
    IF elements = <<>> THEN <<>>
    ELSE IF Len(elements) = 1 THEN Head(elements)
    ELSE Head(elements) \o sep \o Join(Tail(elements), sep)

\* the rewriting of one path element that holds a placeholder
placeholder_to_name(element) ==
    Lower(Replace(Replace(Replace(Replace(<<"b", "y", "_">> \o element,
        "{", <<>>), "}", <<>>), "=", <<"_", "e", "q", "_">>), ":", <<"_">>))

\* a slip: every element "data" is dropped, wherever it stands
drop_data_anywhere(elements) ==
    SelectSeq(elements, LAMBDA e : e # <<"d", "a", "t", "a">>)

\* elements[:1] == ["data"]: only a leading element is dropped
drop_data(elements) ==
    IF Len(elements) >= 1 /\ elements[1] = <<"d", "a", "t", "a">>
    THEN Tail(elements) ELSE elements

path_to_name(path) ==
    LET _path == Split(path, "?")[1]
        elements == SelectSeq(Split(_path, "/"), LAMBDA e : e # <<>>)
        rewritten == [i \in 1..Len(elements) |->
            IF "{" \in Range(elements[i])
            THEN placeholder_to_name(elements[i])
            ELSE elements[i]]
    IN  Lower(Replace(Replace(Join(drop_data(rewritten), <<"_">>),
                              "-", <<"_">>), ":", <<"_">>))

(***************************************************************************)
(* Dictionaries: functions over string keys.                               *)
(***************************************************************************)
Has(d, k) == k \in DOMAIN d

DictSet(d, k, v) == [x \in (DOMAIN d) \cup {k} |-> IF x = k THEN v ELSE d[x]]

DictDel(d, k) == [x \in (DOMAIN d) \ {k} |-> d[x]]

\* dict.get(k, default)
Get(d, k, default) == IF k \in DOMAIN d THEN d[k] ELSE default

(***************************************************************************)
(* The order of Python's str comparison on the names, operation            *)
(* identifiers and enum values of the documents below.                     *)
(***************************************************************************)
Alphabetical ==
    <<"1", "delete", "get", "mode", "name", "off", "on", "power", "spec",
      "state", "suspended", "tags", "update", "vm">>

StrRank(x) == CHOOSE i \in 1..Len(Alphabetical) : Alphabetical[i] = x

StrLess(a, b) == StrRank(a) < StrRank(b)

\* sorted(xs) for a list of strings
RECURSIVE SortStrings(_)
SortStrings(xs) ==
    IF xs = <<>> THEN <<>>
    ELSE LET rest == SortStrings(SubSeq(xs, 1, Len(xs) - 1))
             x == xs[Len(xs)]
         IN  SelectSeq(rest, LAMBDA y : ~StrLess(x, y)) \o <<x>>
             \o SelectSeq(rest, LAMBDA y : StrLess(x, y))

\* sorted(set(xs)) for a list of strings
SortedSet(xs) ==
    LET S == Range(xs)
    IN  SortStrings(CHOOSE s \in [1..Cardinality(S) -> S] : Range(s) = S)

(***************************************************************************)
(* Descriptions are sequences of tokens: the letters of the document's     *)
(* descriptions and the pieces of the sentence parameters() appends.       *)
(* TokenRank orders the tokens as Python orders the strings they stand     *)
(* for, TokenLen is len() of each.                                         *)
(***************************************************************************)
Tokens ==
    <<"\n", "'delete'", "'get'", "'update'", ", ", "Required with I(state=[", "])",
      "a", "b">>

TokenRank(t) == CHOOSE i \in 1..Len(Tokens) : Tokens[i] = t

TokenLen(t) ==
    CASE t = "'delete'" -> 8
      [] t = "'get'" -> 5
      [] t = "'update'" -> 8
      [] t = ", " -> 2
      [] t = "Required with I(state=[" -> 23
      [] t = "])" -> 2
      [] OTHER -> 1

\* len(description)
RECURSIVE PyLen(_)
PyLen(d) == IF d = <<>> THEN 0 ELSE TokenLen(Head(d)) + PyLen(Tail(d))

\* description1 < description2
RECURSIVE DescLess(_, _)
DescLess(d1, d2) ==
    IF d2 = <<>> THEN FALSE
    ELSE IF d1 = <<>> THEN TRUE
    ELSE IF Head(d1) = Head(d2) THEN DescLess(Tail(d1), Tail(d2))
    ELSE TokenRank(Head(d1)) < TokenRank(Head(d2))

\* repr() of a sorted list of operation identifiers, inside "...I(state={})"
RECURSIVE ReprList(_)
ReprList(ids) ==
    IF ids = <<>> THEN <<>>
    ELSE IF Len(ids) = 1 THEN <<"'" \o Head(ids) \o "'">>
    ELSE <<"'" \o Head(ids) \o "'", ", ">> \o ReprList(Tail(ids))

\* "Required with I(state={})".format(sorted(set(operationIds)))
RequiredSentence(operationIds) ==
    <<"Required with I(state=[">> \o ReprList(SortedSet(operationIds)) \o <<"])">>

\* enum values are [t |-> "str" or "int", v |-> the text of the value]; str(item)
Str(item) == [t |-> "str", v |-> item.v]

(***************************************************************************)
(* Objects.  The raw parameter dictionaries of the document are stored in  *)
(* mem.operations[operationId][index] and the definitions in               *)
(* mem.definitions; a stored dictionary holds its "enum" list itself.      *)
(* While parameters() runs, a dictionary's "enum" is a reference to the    *)
(* list object it points to, so that two dictionaries can share one list:  *)
(* [k |-> "def", a |-> definition, i |-> 0] is the enum list of a          *)
(* definition and [k |-> "param", a |-> operationId, i |-> index] the one  *)
(* of a raw parameter.                                                     *)
(***************************************************************************)
DefList(dotted) == [k |-> "def", a |-> dotted, i |-> 0]

ParamList(operationId, idx) == [k |-> "param", a |-> operationId, i |-> idx]

\* the present content of a list object
Deref(mem, ref) ==
    IF ref.k = "def" THEN mem.definitions[ref.a]["enum"]
    ELSE mem.operations[ref.a][ref.i]["enum"]

\* A list that parameters() extends in place doubles with every call.  The model
\* keeps the first MaxCopies occurrences of each value, in the order of the list:
\* the values of the list, which is all the merge reads, are kept exactly.
RECURSIVE CompactFrom(_, _)
CompactFrom(list, j) ==
    IF j > Len(list) THEN <<>>
    ELSE (IF Cardinality({h \in 1..(j - 1) : list[h] = list[j]}) < MaxCopies
          THEN <<list[j]>> ELSE <<>>) \o CompactFrom(list, j + 1)

Compact(list) == CompactFrom(list, 1)

\* list += items, in place
Extend(mem, ref, items) ==
    IF ref.k = "def"
    THEN [mem EXCEPT !.definitions[ref.a] =
              DictSet(@, "enum", Compact(@["enum"] \o items))]
    ELSE [mem EXCEPT !.operations[ref.a][ref.i] =
              DictSet(@, "enum", Compact(@["enum"] \o items))]

\* a stored raw parameter as the object the generators hand on
Load(stored, operationId, idx) ==
    IF Has(stored, "enum")
    THEN DictSet(stored, "enum", ParamList(operationId, idx))
    ELSE stored

\* the value of a dictionary (and of its subkeys) when it is looked at
RECURSIVE Snapshot(_, _)
Snapshot(mem, d) ==
    [key \in DOMAIN d |->
        IF key = "enum" THEN Deref(mem, d[key])
        ELSE IF key = "subkeys"
        THEN [j \in 1..Len(d[key]) |-> Snapshot(mem, d[key][j])]
        ELSE d[key]]

(***************************************************************************)
(* Definitions.get and the flattening generators.  A generator's result    *)
(* is [err, items]: the exception it raised ("none" if it ended) and the   *)
(* dictionaries it yielded.                                                *)
(***************************************************************************)
\* Definitions._ref_to_dotted: ref["$ref"].split("/")[2], the reference kept split
_ref_to_dotted(ref) == ref["$ref"][3]

\* whether Definitions.get(ref) finds the definition (else it raises KeyError)
Resolves(defs, ref) == _ref_to_dotted(ref) \in DOMAIN defs

\* sorted(unsorted_subkeys, key=lambda item: item["name"]); property names are distinct
RECURSIVE SortByName(_)
SortByName(xs) ==
    IF xs = <<>> THEN <<>>
    ELSE LET rest == SortByName(SubSeq(xs, 1, Len(xs) - 1))
             x == xs[Len(xs)]
         IN  SelectSeq(rest, LAMBDA y : ~StrLess(x["name"], y["name"])) \o <<x>>
             \o SelectSeq(rest, LAMBDA y : StrLess(x["name"], y["name"]))

\* "required": True if name in required_keys else False
RequiredFlag(name, v, required_keys) == name \in Range(required_keys)

RECURSIVE _property_to_parameter(_, _)

\* lines 303-309: the property refers to an object schema, whose parameters
\* (sub, the result of the recursive call) become its subkeys
parameter_with_subkeys(parameter, sub) ==
    IF sub.err # "none" THEN [err |-> sub.err, items |-> <<>>]
    ELSE [err |-> "none",
          items |-> <<DictSet(DictSet(parameter, "type", "dict"),
                              "subkeys", SortByName(sub.items))>>]

\* lines 311-312: every key of the definition is copied onto the parameter; the
\* "enum" list is copied by reference
parameter_with_keys(parameter, dotted, ref) ==
    [err |-> "none",
     items |-> <<[key \in (DOMAIN parameter) \cup (DOMAIN ref) |->
                    IF key \notin DOMAIN ref THEN parameter[key]
                    ELSE IF key = "enum" THEN DefList(dotted)
                    ELSE ref[key]]>>]

\* lines 301-312
parameter_resolved(parameter, v, defs) ==
    IF ~Has(v, "$ref") THEN [err |-> "none", items |-> <<parameter>>]
    ELSE IF ~Resolves(defs, v) THEN [err |-> "KeyError", items |-> <<>>]
    ELSE IF Has(defs[_ref_to_dotted(v)], "properties")
    THEN parameter_with_subkeys(parameter,
             _property_to_parameter(defs[_ref_to_dotted(v)], defs))
    ELSE parameter_with_keys(parameter, _ref_to_dotted(v), defs[_ref_to_dotted(v)])

\* the loop body of _property_to_parameter for the property p of a schema
property_parameter(p, required_keys, defs) ==
    parameter_resolved(
        ("name" :> p.name) @@
        ("type" :> Get(p.value, "type", "str")) @@
        ("description" :> Get(p.value, "description", <<>>)) @@
        ("required" :> RequiredFlag(p.name, p.value, required_keys)),
        p.value, defs)

\* what a generator has yielded (acc) and what it yields next (r)
Yield(acc, r) == [err |-> r.err, items |-> acc.items \o r.items]

\* the loop of _property_to_parameter over the properties from the j-th on
RECURSIVE properties_from(_, _, _, _, _)
properties_from(acc, properties, j, required_keys, defs) ==
    IF j > Len(properties) \/ acc.err # "none" THEN acc
    ELSE properties_from(
             Yield(acc, property_parameter(properties[j], required_keys, defs)),
             properties, j + 1, required_keys, defs)

_property_to_parameter(prop_struct, defs) ==
    IF ~Has(prop_struct, "properties") THEN [err |-> "none", items |-> <<>>]
    ELSE properties_from([err |-> "none", items |-> <<>>], prop_struct["properties"],
                         1, Get(prop_struct, "required", <<>>), defs)

\* the dictionaries made by _property_to_parameter, as items: none is a raw entry
Fresh(mem, r) ==
    [err |-> r.err, mem |-> mem,
     items |-> [j \in 1..Len(r.items) |-> [d |-> r.items[j], at |-> 0]]]

\* line 325: i["type"] = i["schema"]["type"], on the raw entry itself
Typed(mem, operationId, idx, typed) ==
    [err |-> "none",
     mem |-> [mem EXCEPT !.operations[operationId][idx] = typed],
     items |-> <<[d |-> Load(typed, operationId, idx), at |-> idx]>>]

\* one raw entry of an operation through _flatten_parameter: [err, mem, items],
\* an item being [d |-> the dictionary yielded, at |-> the index of the raw entry
\* that it is (0 for a dictionary made by _property_to_parameter)]
flatten_entry(mem, operationId, idx, i) ==
    IF ~Has(i, "schema")
    THEN [err |-> "none", mem |-> mem,
          items |-> <<[d |-> Load(i, operationId, idx), at |-> idx]>>]
    ELSE IF Has(i["schema"], "$ref")
    THEN IF ~Resolves(mem.definitions, i["schema"])
         THEN [err |-> "KeyError", mem |-> mem, items |-> <<>>]
         ELSE Fresh(mem, _property_to_parameter(
                             mem.definitions[_ref_to_dotted(i["schema"])],
                             mem.definitions))
    ELSE IF Has(i["schema"], "type")
    THEN Typed(mem, operationId, idx, DictSet(i, "type", i["schema"]["type"]))
    ELSE [err |-> "none", mem |-> mem, items |-> <<>>]

_flatten_parameter(mem, operationId, idx) ==
    flatten_entry(mem, operationId, idx, mem.operations[operationId][idx])

\* a slip: a parameter named spec is yielded like any other
spec_kept(items) == [err |-> "none", items |-> items]

\* itera's loop body on the items of one raw entry: a parameter named spec is
\* replaced by its subkeys (KeyError if it has none)
RECURSIVE spec_to_subkeys(_)
spec_to_subkeys(items) ==
    IF items = <<>> THEN [err |-> "none", items |-> <<>>]
    ELSE IF Head(items).d["name"] # "spec"
    THEN Yield([err |-> "none", items |-> <<Head(items)>>], spec_to_subkeys(Tail(items)))
    ELSE IF ~Has(Head(items).d, "subkeys")
    THEN [err |-> "KeyError: 'subkeys'", items |-> <<>>]
    ELSE Yield([err |-> "none",
                items |-> [j \in 1..Len(Head(items).d["subkeys"]) |->
                              [d |-> Head(items).d["subkeys"][j], at |-> 0]]],
               spec_to_subkeys(Tail(items)))

\* what itera has yielded (acc), with what one more raw entry gives: f is what
\* _flatten_parameter yields for it and g what itera makes of that
itera_entry(acc, f, g) ==
    [err |-> IF g.err # "none" THEN g.err ELSE f.err,
     mem |-> f.mem,
     items |-> acc.items \o g.items]

itera_flattened(acc, f) == itera_entry(acc, f, spec_to_subkeys(f.items))

\* itera(operationId), from raw entry idx on: [err, mem, items]
RECURSIVE itera_from(_, _, _)
itera_from(acc, operationId, idx) ==
    IF idx > Len(acc.mem.operations[operationId]) \/ acc.err # "none" THEN acc
    ELSE itera_from(
             itera_flattened(acc, _flatten_parameter(acc.mem, operationId, idx)),
             operationId, idx + 1)

itera(mem, operationId) ==
    itera_from([err |-> "none", mem |-> mem, items |-> <<>>], operationId, 1)

(***************************************************************************)
(* sorted(itera(operationId), key=lambda item: (item["name"],              *)
(* item.get("description"))).  Comparing the keys of two parameters of the *)
(* same name compares their descriptions, and None with a str raises       *)
(* TypeError.                                                              *)
(***************************************************************************)
SortRaises(items) ==
    \E x, y \in Range(items) :
        /\ x.d["name"] = y.d["name"]
        /\ Has(x.d, "description") /\ ~Has(y.d, "description")

KeyLess(x, y) ==
    \/ StrLess(x.d["name"], y.d["name"])
    \/ /\ x.d["name"] = y.d["name"]
       /\ Has(x.d, "description") /\ Has(y.d, "description")
       /\ DescLess(x.d["description"], y.d["description"])

\* x put into the sorted list, after the items that are not greater
InsertByKey(sorted, x) ==
    SelectSeq(sorted, LAMBDA y : ~KeyLess(x, y)) \o <<x>>
    \o SelectSeq(sorted, LAMBDA y : KeyLess(x, y))

RECURSIVE SortByKey(_)
SortByKey(xs) ==
    IF xs = <<>> THEN <<>>
    ELSE InsertByKey(SortByKey(SubSeq(xs, 1, Len(xs) - 1)), xs[Len(xs)])

(***************************************************************************)
(* AnsibleModuleBase.parameters().  The state of its loops is              *)
(* [err, mem, results, at]: results maps a name to the merged dictionary   *)
(* and at[name] is <<operationId, index>> when that dictionary is a raw    *)
(* entry of the document itself (then every change to it is a change to    *)
(* the document), <<>> when it was made by _property_to_parameter.         *)
(***************************************************************************)
\* lines 229-239: the longer description is kept
merge_description(result, parameter) ==
    IF ~Has(parameter, "description") THEN result
    ELSE IF ~Has(result, "description")
    THEN DictSet(result, "description", parameter["description"])
    ELSE IF result["description"] # parameter["description"]
            /\ PyLen(parameter["description"]) > PyLen(result["description"])
    THEN DictSet(result, "description", parameter["description"])
    ELSE result

\* lines 225-227: results[name], set to the parameter itself at its first sight
first_sight(st, parameter) ==
    IF parameter["name"] \notin DOMAIN st.results
    THEN DictSet(parameter, "operationIds", <<>>)
    ELSE st.results[parameter["name"]]

\* which object results[name] is
first_sight_at(st, operationId, item) ==
    IF item.d["name"] \in DOMAIN st.at THEN st.at
    ELSE (item.d["name"] :> (IF item.at = 0 THEN <<>> ELSE <<operationId, item.at>>))
         @@ st.at

\* lines 240-244: the parameter's list becomes the result's, or is added to it in place
merge_enum(mem, result, parameter) ==
    IF ~Has(parameter, "enum") THEN [mem |-> mem, result |-> result]
    ELSE IF ~Has(result, "enum")
    THEN [mem |-> mem, result |-> DictSet(result, "enum", parameter["enum"])]
    ELSE [mem |-> Extend(mem, result["enum"], Deref(mem, parameter["enum"])),
          result |-> result]

\* lines 246-247
add_operationId(result, operationId) ==
    DictSet(result, "operationIds",
            SortStrings(Append(result["operationIds"], operationId)))

merged(st, at, e, operationId) ==
    [err |-> st.err,
     mem |-> e.mem,
     results |-> (e.result["name"] :> add_operationId(e.result, operationId))
                 @@ st.results,
     at |-> at]

\* the body of the loop over the sorted parameters of one operation
merge_parameter(st, operationId, item) ==
    merged(st, first_sight_at(st, operationId, item),
           merge_enum(st.mem, merge_description(first_sight(st, item.d), item.d), item.d),
           operationId)

RECURSIVE merge_parameters(_, _, _)
merge_parameters(st, operationId, items) ==
    IF items = <<>> THEN st
    ELSE merge_parameters(merge_parameter(st, operationId, Head(items)),
                          operationId, Tail(items))

\* lines 220-247 for one operation, it being what itera(operationId) gives
merge_sorted(st, operationId, it) ==
    IF it.err # "none" THEN [st EXCEPT !.mem = it.mem, !.err = it.err]
    ELSE IF SortRaises(it.items) THEN [st EXCEPT !.mem = it.mem, !.err = "TypeError"]
    ELSE merge_parameters([st EXCEPT !.mem = it.mem], operationId, SortByKey(it.items))

merge_operation(st, operationId) ==
    IF operationId \notin DOMAIN st.mem.operations THEN st
    ELSE merge_sorted(st, operationId, itera(st.mem, operationId))

\* the loop over default_operationIds, visited in the given order
RECURSIVE merge_operations(_, _)
merge_operations(st, operationIds) ==
    IF operationIds = <<>> \/ st.err # "none" THEN st
    ELSE merge_operations(merge_operation(st, Head(operationIds)), Tail(operationIds))

AsStrs(strings) == [j \in 1..Len(strings) |-> [t |-> "str", v |-> strings[j]]]

\* sorted(set(str(item) for item in enum))
normalize_enum(enum) == AsStrs(SortedSet([j \in 1..Len(enum) |-> Str(enum[j]).v]))

\* lines 250-254
finish_enum(result) ==
    IF Has(result, "enum") /\ result["enum"] # <<>>
    THEN DictSet(result, "enum", normalize_enum(result["enum"]))
    ELSE result

\* the description of a required result
required_description(result) ==
    (IF Has(result, "description") THEN result["description"] \o <<"\n">> ELSE <<>>)
    \o RequiredSentence(result["operationIds"])

\* lines 255-264: a required result gets the sentence and loses the flag
finish_required(result) ==
    IF Has(result, "required") /\ result["required"]
    THEN DictDel(DictSet(result, "description", required_description(result)),
                 "required")
    ELSE result

\* lines 249-264 on one merged dictionary, as the value it then has
finish(mem, result) == finish_required(finish_enum(Snapshot(mem, result)))

\* the document after the changes made to the dictionaries that are raw entries
write_back(mem, values, at) ==
    [mem EXCEPT !.operations =
        [op \in DOMAIN mem.operations |->
            [idx \in 1..Len(mem.operations[op]) |->
                IF \E n \in DOMAIN at : at[n] = <<op, idx>>
                THEN values[CHOOSE n \in DOMAIN at : at[n] = <<op, idx>>]
                ELSE mem.operations[op][idx]]]]

\* a slip: the state parameter lists the operations in the order they were visited
state_parameter_unsorted(operationIds) ==
    ("name" :> "state") @@ ("default" :> "present") @@ ("type" :> "str") @@
    ("enum" :> AsStrs(operationIds))

\* lines 266-271
state_parameter(operationIds) ==
    ("name" :> "state") @@ ("default" :> "present") @@ ("type" :> "str") @@
    ("enum" :> AsStrs(SortStrings(operationIds)))

\* results.values()
Values(results) ==
    LET names == CHOOSE l \in [1..Cardinality(DOMAIN results) -> DOMAIN results] :
                     Range(l) = DOMAIN results
    IN  [j \in 1..Len(names) |-> results[names[j]]]

\* lines 266-271: results["state"] = {...}
with_state(values, operationIds) ==
    ("state" :> state_parameter(operationIds)) @@ values

\* lines 249-273, values being the merged dictionaries after lines 249-264
parameters_return(st, values, operationIds) ==
    [err |-> "none",
     mem |-> write_back(st.mem, values, st.at),
     value |-> SortByName(Values(with_state(values, operationIds)))]

\* parameters() once its first loop has ended in st
parameters_end(st, operationIds) ==
    IF st.err # "none"
    THEN [err |-> st.err,
          mem |-> write_back(st.mem,
                      [n \in DOMAIN st.results |-> Snapshot(st.mem, st.results[n])],
                      st.at),
          value |-> <<>>]
    ELSE parameters_return(st,
             [n \in DOMAIN st.results |-> finish(st.mem, st.results[n])],
             operationIds)

\* parameters() with default_operationIds iterated in the order operationIds:
\* [err, mem, value], value being the list returned (<<>> if it raised)
parameters(mem0, operationIds) ==
    parameters_end(
        merge_operations([err |-> "none", mem |-> mem0, results |-> <<>>, at |-> <<>>],
                         operationIds),
        operationIds)

(***************************************************************************)
(* SwaggerFile.init_resources: the paths are visited in order; resources   *)
(* is the dict name -> Resource as the sequence of its values in insertion *)
(* order.  [err, resources].                                               *)
(***************************************************************************)
IndexOf(registered, name) ==
    CHOOSE j \in 1..Len(registered) : registered[j].name = name

\* a slip: a verb registered twice silently replaces the first registration
register_overwriting(registered, name, operations) ==
    [err |-> "none",
     resources |-> [registered EXCEPT ![IndexOf(registered, name)].operations =
                       operations @@ @]]

\* lines 630-636: the loop over path.operations
register(registered, name, operations) ==
    IF (DOMAIN operations) \cap (DOMAIN registered[IndexOf(registered, name)].operations)
           # {}
    THEN [err |-> "Exception: operationId already defined", resources |-> registered]
    ELSE [err |-> "none",
          resources |-> [registered EXCEPT ![IndexOf(registered, name)].operations =
                            operations @@ @]]

\* lines 626-628
with_resource(registered, name) ==
    IF \E j \in 1..Len(registered) : registered[j].name = name THEN registered
    ELSE Append(registered, [name |-> name, operations |-> <<>>])

\* lines 625-636 for one path
init_resource(registered, name, path) ==
    register(with_resource(registered, name), name, path.operations)

RECURSIVE init_resources_from(_, _)
init_resources_from(acc, paths) ==
    IF paths = <<>> \/ acc.err # "none" THEN acc
    ELSE init_resources_from(
             init_resource(acc.resources, path_to_name(Head(paths).path), Head(paths)),
             Tail(paths))

init_resources(paths) ==
    init_resources_from([err |-> "none", resources |-> <<>>], paths)

(***************************************************************************)
(* AnsibleModuleBase.renderer: parameters() is called for the argument     *)
(* spec, for the documentation, once for each operation in                 *)
(* gen_entry_point_func and once in in_query_parameters.  [err, mem,       *)
(* values]: values are the lists the calls returned, in order.             *)
(***************************************************************************)
NumberOfCalls(operationIds) == 3 + Len(operationIds)

\* the calls so far (acc) and one more, which returned or raised r
Called(acc, r) ==
    [err |-> r.err, mem |-> r.mem,
     values |-> IF r.err = "none" THEN Append(acc.values, r.value) ELSE acc.values]

RECURSIVE calls_from(_, _, _)
calls_from(acc, operationIds, n) ==
    IF n = 0 \/ acc.err # "none" THEN acc
    ELSE calls_from(Called(acc, parameters(acc.mem, operationIds)), operationIds, n - 1)

calls(mem, operationIds, n) ==
    calls_from([err |-> "none", mem |-> mem, values |-> <<>>], operationIds, n)

\* the live objects parameters() works on: the raw parameter lists of a resource
\* and the definition table
MemOf(resource, defs) ==
    [operations |-> [op \in DOMAIN resource.operations |->
                        resource.operations[op].parameters],
     definitions |-> defs]

(***************************************************************************)
(* The documents.                                                          *)
(***************************************************************************)
S(x) == [t |-> "str", v |-> x]
I(x) == [t |-> "int", v |-> x]
Ref(dotted) == ("$ref" :> <<"#", "definitions", dotted>>)

\* a path template as it is written: "/" before every segment, then the query string
WritePath(t) ==
    Concat([j \in 1..Len(t.segs) |-> <<"/">> \o t.segs[j]]) \o t.query

\* SwaggerFile.load_paths for one path: operationId = verb
LoadPath(path, parametersOf) ==
    [path |-> path,
     operations |-> [verb \in DOMAIN parametersOf |->
                        [verb |-> verb, path |-> path,
                         parameters |-> parametersOf[verb], basePath |-> ""]]]

Segments ==
    { <<"d", "a", "t", "a">>, <<"D", "a", "t", "a">>, <<"v", "m">>,
      <<"{", "v", "m", "}">>, <<"V", "-", "m">>, <<"a", ":", "{", "V", "=", "m", "}">>,
      <<"a", ":", "b">>, <<>> }

Queries == { <<>>, <<"?", "a">> }

VmTemplate == [segs |-> << <<"v", "m">> >>, query |-> <<>>]

SampleDefinitions ==
    ("E" :> [type |-> "string", enum |-> <<S("on"), S("off")>>]) @@
    ("VmSpec" :> [properties |->
                     <<[name |-> "name",
                        value |-> [type |-> "string", description |-> <<"a">>]],
                       [name |-> "tags", value |-> [type |-> "array"]]>>,
                  required |-> <<"name">>]) @@
    ("Body" :> [properties |-> <<[name |-> "spec", value |-> Ref("VmSpec")]>>]) @@
    ("Deep" :> [properties |-> <<[name |-> "spec", value |-> Ref("Body")]>>]) @@
    ("Power" :> [properties |->
                    <<[name |-> "power", value |-> Ref("E")],
                      [name |-> "mode",
                       value |-> Ref("E") @@ ("description" :> <<"b">>)]>>,
                 required |-> <<"mode">>]) @@
    ("Update" :> [properties |->
                     <<[name |-> "vm",
                        value |-> [type |-> "integer", description |-> <<"a", "b">>]]>>,
                  required |-> <<"vm">>])

RawParameters ==
    { [name |-> "vm", in |-> "path", type |-> "string", required |-> TRUE,
       description |-> <<"a">>],
      [name |-> "vm", in |-> "query", type |-> "string", description |-> <<"b">>,
       enum |-> <<I("1"), S("1")>>],
      [name |-> "vm", in |-> "query", schema |-> [type |-> "integer"]],
      [name |-> "power", in |-> "query", type |-> "string", description |-> <<"a">>,
       enum |-> <<S("on"), S("off")>>],
      [name |-> "power", in |-> "query", type |-> "string", required |-> FALSE,
       enum |-> <<S("off"), S("suspended")>>],
      [name |-> "spec", in |-> "body", type |-> "object"],
      [name |-> "state", in |-> "query", type |-> "string", description |-> <<"a">>],
      [name |-> "body", in |-> "body", schema |-> Ref("Body")],
      [name |-> "body", in |-> "body", schema |-> Ref("Deep")],
      [name |-> "body", in |-> "body", schema |-> Ref("Power")],
      [name |-> "body", in |-> "body", schema |-> Ref("Update")],
      [name |-> "body", in |-> "body", schema |-> Ref("Missing")] }

OperationSets == { {"get"}, {"get", "update"}, {"get", "update", "delete"} }

\* the raw parameter list of an operation: the entries drawn for it, in order
ParametersOf(entries, op) ==
    LET mine == SelectSeq(entries, LAMBDA e : e.op = op)
    IN  [j \in 1..Len(mine) |-> mine[j].entry]

Loaded(paths, defs, t) ==
    /\ document = [paths |-> paths, definitions |-> defs]
    /\ template = t
    /\ definitions = defs
    /\ resources = <<>>
    /\ pc = "loaded"
    /\ todo = <<>>
    /\ order = <<>>
    /\ returned = <<>>
    /\ error = "none"
    /\ emitted = <<>>

\* one resource whose operations carry up to MaxParams raw parameters
Init ==
    \E ops \in OperationSets :
      \E entries \in SeqsUpTo([op : ops \ {"delete"}, entry : RawParameters], MaxParams) :
        Loaded(<<LoadPath(WritePath(VmTemplate),
                          [op \in ops |-> ParametersOf(entries, op)])>>,
               SampleDefinitions, <<VmTemplate>>)

\* one path of up to MaxSegments segments, with a single operation
InitName ==
    \E segs \in SeqsUpTo(Segments, MaxSegments) , query \in Queries :
        LET t == [segs |-> segs, query |-> query]
        IN  Loaded(<<LoadPath(WritePath(t), [op \in {"get"} |-> <<>>])>>,
                   SampleDefinitions, <<t>>)

PathTemplates ==
    { [segs |-> << <<"v", "m">> >>, query |-> <<>>],
      [segs |-> << <<"d", "a", "t", "a">>, <<"v", "m">> >>, query |-> <<>>],
      [segs |-> << <<"v", "m">>, <<"{", "v", "m", "}">> >>, query |-> <<>>] }

\* the raw parameter lists of the operations in the indexing runs
IndexParameters == { <<>>, <<[name |-> "body", in |-> "body", schema |-> Ref("Missing")]>> }

\* the operations a path can carry in the indexing runs: verb -> raw parameters
PathOperations == UNION {[verbs -> IndexParameters] : verbs \in SUBSET {"get", "update"}}

\* up to MaxPaths paths, written from different templates
InitIndex ==
    \E ts \in SeqsUpTo(PathTemplates, MaxPaths) :
      /\ \A i, j \in 1..Len(ts) : i # j => ts[i] # ts[j]
      /\ \E ops \in [1..Len(ts) -> PathOperations] :
            Loaded([j \in 1..Len(ts) |-> LoadPath(WritePath(ts[j]), ops[j])],
                   SampleDefinitions, ts)

(***************************************************************************)
(* main() on one document.                                                 *)
(***************************************************************************)
Indexed(r) ==
    IF r.err # "none"
    THEN /\ pc' = "failed"
         /\ error' = r.err
         /\ UNCHANGED <<resources, todo>>
    ELSE /\ pc' = "rendering"
         /\ resources' = r.resources
         /\ todo' = [j \in 1..Len(r.resources) |-> j]
         /\ UNCHANGED error

\* resources = swagger_file.init_resources(swagger_file.paths.values())
InitResources ==
    /\ pc = "loaded"
    /\ Indexed(init_resources(document.paths))
    /\ UNCHANGED <<document, template, definitions, order, returned, emitted>>

\* the renderer's calls of parameters() have given r: the objects are as the calls
\* left them, and the module file is written unless a call raised
Rendered(k, r) ==
    /\ returned' = r.values
    /\ definitions' = r.mem.definitions
    /\ resources' = [resources EXCEPT ![k].operations =
           [op \in DOMAIN @ |-> [@[op] EXCEPT !.parameters = r.mem.operations[op]]]]
    /\ IF r.err # "none"
       THEN /\ pc' = "failed"
            /\ error' = r.err
            /\ UNCHANGED <<todo, emitted>>
       ELSE /\ emitted' = Append(emitted, resources[k].name)
            /\ todo' = Tail(todo)
            /\ UNCHANGED <<pc, error>>

\* one turn of the loop over resources.values(): AnsibleModule(resource, ...),
\* whose set of operation identifiers iterates in some order, and its renderer
RenderModule ==
    /\ pc = "rendering"
    /\ todo # <<>>
    /\ \E operationIds \in Perms(DOMAIN resources[Head(todo)].operations) :
         /\ order' = operationIds
         /\ IF Len(operationIds) = 0
            THEN /\ returned' = <<>>
                 /\ todo' = Tail(todo)
                 /\ UNCHANGED <<definitions, resources, pc, error, emitted>>
            ELSE Rendered(Head(todo),
                          calls(MemOf(resources[Head(todo)], definitions), operationIds,
                                NumberOfCalls(operationIds)))
    /\ UNCHANGED <<document, template>>

\* the loop is over: main() returns
Finish ==
    /\ pc = "rendering"
    /\ todo = <<>>
    /\ pc' = "done"
    /\ UNCHANGED <<document, template, definitions, resources, todo, order,
                   returned, error, emitted>>

Next == InitResources \/ RenderModule \/ Finish

Spec == Init /\ [][Next]_vars

SpecName == InitName /\ [][Next]_vars

SpecIndex == InitIndex /\ [][Next]_vars

(***************************************************************************)
(* What the properties below read off a state.                             *)
(***************************************************************************)
\* the objects parameters() works on at its first call for the k-th resource:
\* the document as it was loaded
Pristine(k) == MemOf(init_resources(document.paths).resources[k], document.definitions)

\* sorted(S) for a set of strings
Sorted(strings) ==
    SortStrings(CHOOSE s \in [1..Cardinality(strings) -> strings] : Range(s) = strings)

\* the dictionaries itera(operationId) yields on the document as loaded
Fed(operationId) ==
    LET it == itera(Pristine(1), operationId)
    IN  [j \in 1..Len(it.items) |-> Snapshot(it.mem, it.items[j].d)]

\* str.endswith
EndsWith(d, suffix) ==
    Len(d) >= Len(suffix) /\ SubSeq(d, Len(d) - Len(suffix) + 1, Len(d)) = suffix

\* every raw parameter entry of the document
RawEntries ==
    UNION {UNION {Range(document.paths[j].operations[op].parameters) :
                      op \in DOMAIN document.paths[j].operations} :
               j \in 1..Len(document.paths)}

\* every schema reference of the document: in raw entries and in definitions
References ==
    {e["schema"] : e \in {x \in RawEntries : Has(x, "schema") /\ Has(x["schema"], "$ref")}}
    \cup UNION {{p.value : p \in {x \in Range(Get(document.definitions[n], "properties", <<>>)) :
                                      Has(x.value, "$ref")}} :
                    n \in DOMAIN document.definitions}

AllReferencesResolve == \A ref \in References : Resolves(document.definitions, ref)

\* two paths of the same derived name define the same verb
DuplicateRegistration ==
    \E i, j \in 1..Len(document.paths) :
        /\ i # j
        /\ path_to_name(document.paths[i].path) = path_to_name(document.paths[j].path)
        /\ (DOMAIN document.paths[i].operations) \cap (DOMAIN document.paths[j].operations)
               # {}

(***************************************************************************)
(* C1.                                                                     *)
(***************************************************************************)
\* C1: determinism of the merge.  The list the first parameters() call of a module
\* returned is the list the call returns on the same document whatever the order in
\* which the set default_operationIds is iterated.
C1_OrderIndependent ==
    returned # <<>> =>
        \A operationIds \in Perms(Range(order)) :
            parameters(Pristine(1), operationIds).value = returned[1]

(***************************************************************************)
(* C2.                                                                     *)
(***************************************************************************)
PlainChar(c) == IF c \in {"-", ":"} THEN <<"_">> ELSE <<LowerChar(c)>>

PlaceholderChar(c) ==
    IF c \in {"{", "}"} THEN <<>>
    ELSE IF c = "=" THEN <<"_", "e", "q", "_">>
    ELSE PlainChar(c)

\* the name of one segment, character by character
SegmentName(seg) ==
    IF "{" \in Range(seg)
    THEN <<"b", "y", "_">> \o Concat([i \in 1..Len(seg) |-> PlaceholderChar(seg[i])])
    ELSE Concat([i \in 1..Len(seg) |-> PlainChar(seg[i])])

\* the name of a path written from the template t: the query string plays no part,
\* and ':' becomes '_' in every segment
ExpectedName(t) ==
    LET segs == SelectSeq(t.segs, LAMBDA e : e # <<>>)
        kept == IF segs # <<>> /\ segs[1] = <<"d", "a", "t", "a">> THEN Tail(segs) ELSE segs
    IN  Join([i \in 1..Len(kept) |-> SegmentName(kept[i])], <<"_">>)

\* the derivation as the claim words it: the whole path is split on '/', and ':' is
\* replaced in the segments that hold a placeholder only
ClaimedName(path) ==
    LET elements == SelectSeq(Split(path, "/"), LAMBDA e : e # <<>>)
        rewritten == [i \in 1..Len(elements) |->
            IF "{" \in Range(elements[i])
            THEN placeholder_to_name(elements[i])
            ELSE elements[i]]
    IN  Lower(Replace(Join(drop_data(rewritten), <<"_">>), "-", <<"_">>))

\* C2 as worded: every resource is named by the claim's derivation applied to its path.
C2_ClaimedDerivation ==
    resources # <<>> => resources[1].name = ClaimedName(document.paths[1].path)

\* C2: path_to_name.  The name of a resource is derived from the part of its path
\* before '?': the non-empty segments, a placeholder segment rewritten to 'by_' +
\* segment with braces stripped and '=' replaced by '_eq_', a leading 'data' segment
\* dropped, the rest joined with '_', and '-' and ':' replaced by '_' and letters
\* lowercased in every segment.
C2_PathToName ==
    resources # <<>> => resources[1].name = ExpectedName(template[1])

\* /data/a:b?a has been indexed: the resource is named a_b
C2_Witness ==
    /\ resources # <<>>
    /\ template[1] = [segs |-> << <<"d", "a", "t", "a">>, <<"a", ":", "b">> >>,
                      query |-> <<"?", "a">>]
    /\ resources[1].name = <<"a", "_", "b">>

(***************************************************************************)
(* C3.                                                                     *)
(***************************************************************************)
\* C3: duplicate registration is fatal.  Once init_resources has run: if two paths
\* of the same derived name define the same verb, main() has failed with the
\* exception of init_resources and no module was rendered or written; if not, the
\* exception was not raised, the resource names are distinct, and every (path, verb)
\* is registered exactly once, under the resource named path_to_name(path) and keyed
\* by the verb, with nothing else registered.
C3_DuplicateIsFatal ==
    pc # "loaded" =>
        IF DuplicateRegistration
        THEN /\ pc = "failed"
             /\ error = "Exception: operationId already defined"
             /\ emitted = <<>> /\ returned = <<>> /\ resources = <<>>
        ELSE /\ error # "Exception: operationId already defined"
             /\ \A k, l \in 1..Len(resources) :
                    resources[k].name = resources[l].name => k = l
             /\ \A j \in 1..Len(document.paths) :
                  \A verb \in DOMAIN document.paths[j].operations :
                    Cardinality({k \in 1..Len(resources) :
                        /\ resources[k].name = path_to_name(document.paths[j].path)
                        /\ verb \in DOMAIN resources[k].operations
                        /\ resources[k].operations[verb].verb = verb
                        /\ resources[k].operations[verb].path = document.paths[j].path})
                      = 1
             /\ \A k \in 1..Len(resources) :
                  \A verb \in DOMAIN resources[k].operations :
                    \E j \in 1..Len(document.paths) :
                        /\ document.paths[j].path = resources[k].operations[verb].path
                        /\ verb \in DOMAIN document.paths[j].operations
                        /\ resources[k].name = path_to_name(document.paths[j].path)

\* /vm and /data/vm both define get: main() failed in init_resources
C3_Witness ==
    /\ DuplicateRegistration
    /\ Len(document.paths) = 2
    /\ pc = "failed"
    /\ error = "Exception: operationId already defined"

(***************************************************************************)
(* C4.                                                                     *)
(***************************************************************************)
\* the name and the required flag of each dictionary of a list
Flags(items) ==
    [j \in 1..Len(items) |->
        [name |-> items[j]["name"], required |-> Get(items[j], "required", FALSE)]]

\* the properties of a schema, each required exactly if the schema lists it
PropertyFlags(schema) ==
    [j \in 1..Len(schema["properties"]) |->
        [name |-> schema["properties"][j].name,
         required |-> schema["properties"][j].name
                          \in Range(Get(schema, "required", <<>>))]]

\* what a property gives: one named spec, the properties of the schema it refers to
\* in the order of their names, whatever their names; any other, itself
ExpectedOfProperty(schema, j) ==
    IF schema["properties"][j].name = "spec"
    THEN SortByName(PropertyFlags(
             document.definitions[_ref_to_dotted(schema["properties"][j].value)]))
    ELSE <<PropertyFlags(schema)[j]>>

\* what a raw entry gives
ExpectedOfEntry(e) ==
    IF ~Has(e, "schema") \/ ~Has(e["schema"], "$ref") THEN Flags(<<e>>)
    ELSE Concat([j \in 1..Len(document.definitions[_ref_to_dotted(e["schema"])]["properties"])
                    |-> ExpectedOfProperty(
                            document.definitions[_ref_to_dotted(e["schema"])], j)])

ExpectedFed(operationId) ==
    Concat([j \in 1..Len(document.paths[1].operations[operationId].parameters) |->
               ExpectedOfEntry(document.paths[1].operations[operationId].parameters[j])])

Names(items) == {items[j]["name"] : j \in 1..Len(items)}

\* C4 as worded: no descriptor named spec reaches the merge, so none is returned.
C4_NoSpecDescriptor ==
    returned # <<>> => "spec" \notin Names(returned[1])

\* C4: the spec convention, one level deep.  When parameters() returns, what each
\* operation fed to the merge is, entry by entry: a parameter named spec replaced by
\* the properties of the schema it resolves to, each required exactly if that
\* schema's required list names it, and every other parameter itself; a property
\* named spec of that schema is fed under the name spec.  The names returned are the
\* names fed, and state.  With a raw parameter named spec that has no schema, no
\* call of parameters() returns and no module is written.
C4_SpecFlattenedOnce ==
    /\ (\E e \in RawEntries : e["name"] = "spec" /\ ~Has(e, "schema")) =>
           returned = <<>> /\ emitted = <<>> /\ pc # "done"
    /\ returned # <<>> =>
         /\ \A op \in Range(order) : Flags(Fed(op)) = ExpectedFed(op)
         /\ Names(returned[1]) =
                {"state"} \cup UNION {Names(ExpectedFed(op)) : op \in Range(order)}

\* get takes a body of schema Body and one of schema Deep: name, tags and spec are
\* returned
C4_Witness ==
    /\ returned # <<>>
    /\ \E e \in RawEntries : Has(e, "schema") /\ e["schema"] = Ref("Body")
    /\ \E e \in RawEntries : Has(e, "schema") /\ e["schema"] = Ref("Deep")
    /\ {"name", "tags", "spec"} \subseteq Names(returned[1])

(***************************************************************************)
(* C5.                                                                     *)
(***************************************************************************)
\* the enum values the included operations declare for a name
Declared(name) ==
    UNION {UNION {Range(d["enum"]) :
                      d \in {x \in Range(Fed(op)) : x["name"] = name /\ Has(x, "enum")}} :
               op \in Range(order)}

\* C5: enum union.  The enum of every parameter returned (state apart) is the sorted,
\* duplicate-free list of the strings of the values the included operations declare
\* for its name, and a parameter for which none is declared has no enum.
C5_EnumUnion ==
    returned # <<>> =>
        \A j \in 1..Len(returned[1]) :
            returned[1][j]["name"] # "state" =>
                IF Declared(returned[1][j]["name"]) = {}
                THEN ~Has(returned[1][j], "enum")
                ELSE /\ Has(returned[1][j], "enum")
                     /\ returned[1][j]["enum"] =
                            AsStrs(Sorted({x.v : x \in Declared(returned[1][j]["name"])}))

(***************************************************************************)
(* C6.                                                                     *)
(***************************************************************************)
\* C6: the state parameter and the shape of the list.  Every list parameters()
\* returned is in the strict order of its names, so no name occurs twice, and its
\* one parameter named state has exactly the keys name, default, type and enum, with
\* default "present", type "str" and for enum the operation identifiers of the
\* resource, each once, in sorted order.
C6_StateParameter ==
    \A i \in 1..Len(returned) :
        /\ \A j \in 1..(Len(returned[i]) - 1) :
               StrLess(returned[i][j]["name"], returned[i][j + 1]["name"])
        /\ \E j \in 1..Len(returned[i]) :
               /\ returned[i][j]["name"] = "state"
               /\ DOMAIN returned[i][j] = {"name", "default", "type", "enum"}
               /\ returned[i][j]["default"] = "present"
               /\ returned[i][j]["type"] = "str"
               /\ Range(returned[i][j]["enum"]) =
                      {S(op) : op \in DOMAIN resources[1].operations}
               /\ \A k \in 1..(Len(returned[i][j]["enum"]) - 1) :
                      StrLess(returned[i][j]["enum"][k].v, returned[i][j]["enum"][k + 1].v)

\* update, get and delete were visited in that order, get taking a parameter that is
\* itself named state, and every call returned
C6_Witness ==
    /\ order = <<"update", "get", "delete">>
    /\ Len(returned) = NumberOfCalls(order)
    /\ \E e \in RawEntries : e["name"] = "state"

(***************************************************************************)
(* C7.                                                                     *)
(***************************************************************************)
\* C7: idempotence of the merge.  Every call of parameters() the renderer made for a
\* module returned the list its first call returned.
C7_Idempotent == \A i \in 1..Len(returned) : returned[i] = returned[1]

(***************************************************************************)
(* C8.                                                                     *)
(***************************************************************************)
\* C8: per-document atomicity.  When main() has ended in an error, no module of the
\* document has been written.
C8_AllOrNothing == pc = "failed" => emitted = <<>>

(***************************************************************************)
(* C9.                                                                     *)
(***************************************************************************)
\* C9: totality.  On a document whose references all resolve and which registers no
\* (resource, verb) twice, main() does not end in an error.
C9_Total == (AllReferencesResolve /\ ~DuplicateRegistration) => pc # "failed"

(***************************************************************************)
(* C10.                                                                    *)
(***************************************************************************)
\* the included operations that mark a name required
RequiredBy(name) ==
    {op \in Range(order) :
        \E d \in Range(Fed(op)) : d["name"] = name /\ Get(d, "required", FALSE)}

\* C10: conditional required-ness.  No parameter returned carries a true required
\* flag, and the description of a parameter (state apart) ends with the sentence
\* 'Required with I(state=[...])' exactly if some included operation marks it
\* required, the sentence then listing, sorted, the operations that mark it required.
C10_RequiredSentence ==
    returned # <<>> =>
        \A j \in 1..Len(returned[1]) :
            /\ ~Get(returned[1][j], "required", FALSE)
            /\ returned[1][j]["name"] # "state" =>
                 IF RequiredBy(returned[1][j]["name"]) = {}
                 THEN ~EndsWith(Get(returned[1][j], "description", <<>>), <<"])">>)
                 ELSE EndsWith(Get(returned[1][j], "description", <<>>),
                               RequiredSentence(Sorted(RequiredBy(returned[1][j]["name"]))))

(***************************************************************************)
(* C11.                                                                    *)
(***************************************************************************)
\* the raw parameter lists of the k-th resource as they are now
RawParametersNow(k) ==
    [op \in DOMAIN resources[k].operations |-> resources[k].operations[op].parameters]

\* C11: the document is read-only after load.  Whatever calls of parameters() have
\* been made, the definition table is the one that was loaded, and the raw
\* parameter entries of every resource's operations are the ones that were loaded.
C11_DocumentReadOnly ==
    /\ definitions = document.definitions
    /\ \A k \in 1..Len(resources) : RawParametersNow(k) = Pristine(k).operations

(***************************************************************************)
(* C12.                                                                    *)
(***************************************************************************)
\* the included operations that feed a parameter of this name to the merge
UsedBy(name) == {op \in Range(order) : name \in Names(Fed(op))}

\* C12: no parameter is lost by the merge.  For every name that an included
\* operation feeds to the merge, the name state too, the list returned holds a
\* parameter of that name whose operationIds are the operations that feed the
\* name, each once, in sorted order.
C12_NoParameterLost ==
    returned # <<>> =>
        \A op \in Range(order) :
            \A name \in Names(Fed(op)) :
                \E j \in 1..Len(returned[1]) :
                    /\ returned[1][j]["name"] = name
                    /\ Has(returned[1][j], "operationIds")
                    /\ returned[1][j]["operationIds"] = Sorted(UsedBy(name))

=============================================================================
